---- MODULE Spec2Model ----
(***************************************************************************)
(* A model of MSviewer: MSPlot (MSView.py), WellPlot (WellView.py) and     *)
(* DataViewer (VisualizeModel.py).                                         *)
(*                                                                         *)
(* Conventions.  A timestamp is an integer number of milliseconds since    *)
(* Epoch; a Brune Magnitude is an integer number of tenths (-12 is -1.2).  *)
(* A data frame is a sequence of rows, a row a function from column names  *)
(* to values.  A file is a sequence of lines.  Python's None, pandas' NaT  *)
(* and NaN are records with a "kind" field.                                *)
(***************************************************************************)
EXTENDS Integers, Sequences, FiniteSets, TLC

VARIABLES
    fs,               \* the files on disk: path -> sequence of lines
    data,             \* MSPlot.data (absent until the first load_csv)
    color_by, color_scale, size_by, size_range,
    plot_start_time, plot_end_time, title,          \* MSPlot configuration
    callerSet,        \* which of the two time bounds the caller has set
    well,             \* WellPlot.well1 .. well4, as a 4-tuple
    plot_objects,     \* DataViewer.plot_objects
    fig,              \* the figure DataViewer.draw builds
    lastCall,         \* the method called last and its argument
    ret,              \* what it returned
    raised,           \* the exception it raised
    stdout            \* the lines it printed

msCfg == <<color_by, color_scale, size_by, size_range, plot_start_time, plot_end_time, title>>
msVars == <<data, msCfg, callerSet>>
dvVars == <<plot_objects, fig>>
vars == <<fs, msVars, well, dvVars, lastCall, ret, raised, stdout>>

-----------------------------------------------------------------------------
(* Bounds of the model *)

MaxRows == 3
MaxLoadRows == 2
MaxObjs == 2
MaxOver == 1
MaxStations == 2
MaxGroup == 2

-----------------------------------------------------------------------------
(* Python values *)

None == [kind |-> "None"]
NaT == [kind |-> "NaT"]
NaN == [kind |-> "NaN"]
Ts(ms) == [kind |-> "Timestamp", ms |-> ms]
Num(v) == [kind |-> "number", v |-> v]
True == [kind |-> "True"]
DataFrame(rows) == [kind |-> "DataFrame", rows |-> rows]

Call(op, arg) == [op |-> op, arg |-> arg]
Exception(type, msg) == [kind |-> "raised", type |-> type, msg |-> msg]

Abs(v) == IF v < 0 THEN -v ELSE v
SeqMin(s) == CHOOSE v \in {s[i] : i \in DOMAIN s} : \A i \in DOMAIN s : v <= s[i]
SeqMax(s) == CHOOSE v \in {s[i] : i \in DOMAIN s} : \A i \in DOMAIN s : v >= s[i]

\* Series.min() / Series.max() of a datetime column: NaT when it is empty
TsMin(s) == IF s = <<>> THEN NaT ELSE Ts(SeqMin(s))
TsMax(s) == IF s = <<>> THEN NaT ELSE Ts(SeqMax(s))
\* Series.min() / Series.max() of a numeric column: NaN when it is empty
NumMin(s) == IF s = <<>> THEN NaN ELSE Num(SeqMin(s))
NumMax(s) == IF s = <<>> THEN NaN ELSE Num(SeqMax(s))

Column(df, name) == [i \in DOMAIN df |-> df[i][name]]

-----------------------------------------------------------------------------
(* pd.to_datetime and pd.to_timedelta *)

\* days from 0000-03-01 to the civil date y-m-d (proleptic Gregorian)
DaysFromCivil(y, m, d) ==
    LET yy == IF m <= 2 THEN y - 1 ELSE y
        mm == IF m <= 2 THEN m + 9 ELSE m - 3
    IN  365 * yy + (yy \div 4) - (yy \div 100) + (yy \div 400)
          + ((153 * mm + 2) \div 5) + (d - 1)

\* The instant the model counts milliseconds from: 2024-12-31 00:00:00
EpochDays == DaysFromCivil(2024, 12, 31)

\* pd.to_datetime("MM/DD/YYYY HH:MM:ss"): date is <<MM, DD, YYYY>>, time is <<HH, MM, ss>>
to_datetime(date, time) ==
    (DaysFromCivil(date[3], date[1], date[2]) - EpochDays) * 86400000
      + ((time[1] * 60 + time[2]) * 60 + time[3]) * 1000

\* pd.to_timedelta(n, unit='ms'); to_timedelta_seconds is the variant that
\* keeps whole seconds only
to_timedelta_seconds(n) == (n \div 1000) * 1000
to_timedelta(n) == n

-----------------------------------------------------------------------------
(* Files *)

\* One data line of an event catalog: File Name, position, date, time,
\* millisecond offset, Brune Magnitude, Stage.
CsvRow(name, date, time, ms, mag, stage) ==
    [c \in {"File Name", "Easting", "Northing", "Depth TVDSS", "Origin Time - Date (UTC)",
            "Origin Time - Time (UTC)", "Origin Time - Millisecond (UTC)",
            "Brune Magnitude", "Stage"} |->
        CASE c = "File Name" -> name
          [] c = "Easting" -> 10 * name
          [] c = "Northing" -> 20 * name
          [] c = "Depth TVDSS" -> 30 * name
          [] c = "Origin Time - Date (UTC)" -> date
          [] c = "Origin Time - Time (UTC)" -> time
          [] c = "Origin Time - Millisecond (UTC)" -> ms
          [] c = "Brune Magnitude" -> mag
          [] OTHER -> stage]

\* An event catalog file: the column-name line, the units line, then one
\* line per event; attrs[i] is <<date, time, ms, magnitude, stage>> and
\* the i-th event is named i.
CatalogFile(attrs) ==
    <<"header", "units">> \o
    [i \in DOMAIN attrs |->
        CsvRow(i, attrs[i][1], attrs[i][2], attrs[i][3], attrs[i][4], attrs[i][5])]

\* all sequences over S of length 0 .. n
SeqsUpTo(S, n) == UNION {[1..k -> S] : k \in 0..n}

-----------------------------------------------------------------------------
(* MSPlot.load_csv *)

\* pd.read_csv(..., skiprows=[1]): line 0 names the columns, line 1 (the
\* units) is skipped, every later line is a row
read_csv(lines) == SubSeq(lines, 3, Len(lines))

\* rename(columns=...), then 'Origin DateTime' = to_datetime(date + ' ' + time)
\* + to_timedelta(ms, unit='ms')
ParseRow(r) ==
    [c \in {"File Name", "Easting (ft)", "Northing (ft)", "Depth TVDSS (ft)",
            "Origin Time - Date (UTC) - MM/DD/YYYY", "Origin Time - Time (UTC) - HH:MM:ss",
            "Origin Time - Millisecond (UTC)", "Brune Magnitude", "Stage",
            "Origin DateTime"} |->
        CASE c = "Easting (ft)" -> r["Easting"]
          [] c = "Northing (ft)" -> r["Northing"]
          [] c = "Depth TVDSS (ft)" -> r["Depth TVDSS"]
          [] c = "Origin Time - Date (UTC) - MM/DD/YYYY" -> r["Origin Time - Date (UTC)"]
          [] c = "Origin Time - Time (UTC) - HH:MM:ss" -> r["Origin Time - Time (UTC)"]
          [] c = "Origin DateTime" ->
                to_datetime(r["Origin Time - Date (UTC)"], r["Origin Time - Time (UTC)"])
                  + to_timedelta(r["Origin Time - Millisecond (UTC)"])
          [] OTHER -> r[c]]

ParseCatalog(lines) ==
    LET rows == read_csv(lines) IN DataFrame([i \in DOMAIN rows |-> ParseRow(rows[i])])

FileNotFound(path) == Exception("FileNotFoundError", <<"File not found: ", path>>)

\* what a load that raises leaves of the record set: the check of the path
\* comes before anything is assigned
\* (DataAfterFailedLoad_cleared: the variant that drops the old records first)
DataAfterFailedLoad_cleared(old) == None
DataAfterFailedLoad(old) == old

load_csv(MScatalog) ==
    /\ lastCall' = Call("MSPlot.load_csv", MScatalog)
    /\ IF MScatalog \notin DOMAIN fs
       THEN /\ raised' = FileNotFound(MScatalog)
            /\ data' = DataAfterFailedLoad(data)
            /\ ret' = None
            /\ stdout' = <<>>
       ELSE /\ data' = ParseCatalog(fs[MScatalog])
            /\ raised' = None
            /\ ret' = True
            /\ stdout' = <<"Success!">>
    /\ UNCHANGED <<fs, msCfg, callerSet, well, dvVars>>

-----------------------------------------------------------------------------
(* MSPlot setters *)

Returned(op, arg) ==
    /\ lastCall' = Call(op, arg)
    /\ ret' = None
    /\ raised' = None
    /\ stdout' = <<>>

set_colorby(v) ==
    /\ color_by' = v
    /\ Returned("MSPlot.set_colorby", v)
    /\ UNCHANGED <<fs, data, color_scale, size_by, size_range, plot_start_time, plot_end_time,
                   title, callerSet, well, dvVars>>

set_colorscale(v) ==
    /\ color_scale' = v
    /\ Returned("MSPlot.set_colorscale", v)
    /\ UNCHANGED <<fs, data, color_by, size_by, size_range, plot_start_time, plot_end_time,
                   title, callerSet, well, dvVars>>

set_sizeby(v) ==
    /\ size_by' = v
    /\ Returned("MSPlot.set_sizeby", v)
    /\ UNCHANGED <<fs, data, color_by, color_scale, size_range, plot_start_time, plot_end_time,
                   title, callerSet, well, dvVars>>

set_sizerange(v) ==
    /\ size_range' = v
    /\ Returned("MSPlot.set_sizerange", v)
    /\ UNCHANGED <<fs, data, color_by, color_scale, size_by, plot_start_time, plot_end_time,
                   title, callerSet, well, dvVars>>

set_start_time(v) ==
    /\ plot_start_time' = v
    /\ callerSet' = callerSet \cup {"plot_start_time"}
    /\ Returned("MSPlot.set_start_time", v)
    /\ UNCHANGED <<fs, data, color_by, color_scale, size_by, size_range, plot_end_time,
                   title, well, dvVars>>

set_end_time(v) ==
    /\ plot_end_time' = v
    /\ callerSet' = callerSet \cup {"plot_end_time"}
    /\ Returned("MSPlot.set_end_time", v)
    /\ UNCHANGED <<fs, data, color_by, color_scale, size_by, size_range, plot_start_time,
                   title, well, dvVars>>

set_title(v) ==
    /\ title' = v
    /\ Returned("MSPlot.set_title", v)
    /\ UNCHANGED <<fs, data, color_by, color_scale, size_by, size_range, plot_start_time,
                   plot_end_time, callerSet, well, dvVars>>

-----------------------------------------------------------------------------
(* MSPlot.create_plot *)

\* data.iloc[:101]
DevCap == 101
SizeScale == 100
SizeRef == 25

iloc(rows) == SubSeq(rows, 1, IF Len(rows) < DevCap THEN Len(rows) ELSE DevCap)

Perms(S) == {p \in [1..Cardinality(S) -> S] : \A i, j \in 1..Cardinality(S) : p[i] = p[j] => i = j}

\* The orders sort_values(by='Origin DateTime') can leave the rows in.  The
\* default kind is quicksort, which is not stable: rows with equal
\* timestamps come out in an order the build decides.  SortRange gives the
\* orders of the rows idx whose timestamps lie in lo .. hi.
RECURSIVE SortRange(_, _, _, _)
SortRange(rows, idx, lo, hi) ==
    IF idx = {} THEN {<<>>}
    ELSE IF lo = hi THEN {[j \in 1..Cardinality(idx) |-> rows[p[j]]] : p \in Perms(idx)}
    ELSE LET mid == (lo + hi) \div 2
             low == {i \in idx : rows[i]["Origin DateTime"] <= mid}
         IN  {a \o b : a \in SortRange(rows, low, lo, mid),
                       b \in SortRange(rows, idx \ low, mid + 1, hi)}

\* (sort_values_none: the variant that leaves the rows in source order)
sort_values_none(rows) == {rows}
sort_values(rows) ==
    IF rows = <<>> THEN {<<>>}
    ELSE LET times == Column(rows, "Origin DateTime")
         IN  SortRange(rows, DOMAIN rows, SeqMin(times), SeqMax(times))

\* column >= bound and column <= bound; a comparison with NaT is False
\* (Ge_ignored: the variant that drops the lower bound)
Ge_ignored(t, bound) == TRUE
Ge(t, bound) == bound.kind = "Timestamp" /\ t >= bound.ms
Le(t, bound) == bound.kind = "Timestamp" /\ t <= bound.ms

\* df[(column >= lower) & (column <= upper)]: the rows kept, in the order
\* they have in df
RECURSIVE Filter(_, _, _)
Filter(rows, lower, upper) ==
    IF rows = <<>> THEN <<>>
    ELSE IF Len(rows) = 1
    THEN IF Ge(rows[1]["Origin DateTime"], lower) /\ Le(rows[1]["Origin DateTime"], upper)
         THEN rows ELSE <<>>
    ELSE LET mid == Len(rows) \div 2
         IN  Filter(SubSeq(rows, 1, mid), lower, upper)
               \o Filter(SubSeq(rows, mid + 1, Len(rows)), lower, upper)

\* the bound create_plot stores and filters by
DefaultBound(stored, derived) == IF stored.kind = "None" THEN derived ELSE stored

\* f"File: {File Name}<br>Stage: {Stage}<br>Magnitude: {Brune Magnitude:.2f}"
HoverText(r) == <<"File: ", r["File Name"], "<br>Stage: ", r["Stage"], "<br>Magnitude: ",
                  r["Brune Magnitude"]>>

MarkerSize(v) == Abs(v) * SizeScale

\* the rows cmin and cmax are taken over (ColorRangeRows_all: the variant
\* that takes them over the unfiltered rows)
ColorRangeRows_all(df_100, df_filtered) == df_100
ColorRangeRows(df_100, df_filtered) == df_filtered

Scatter3d(df_100, df_filtered, sizeCol, colorCol, scale) ==
    [kind |-> "Scatter3d",
     x |-> Column(df_filtered, "Easting (ft)"),
     y |-> Column(df_filtered, "Northing (ft)"),
     z |-> Column(df_filtered, "Depth TVDSS (ft)"),
     text |-> [i \in DOMAIN df_filtered |-> HoverText(df_filtered[i])],
     mode |-> "markers",
     marker |-> [sizemode |-> "diameter",
                 sizeref |-> SizeRef,
                 size |-> [i \in DOMAIN df_filtered |-> MarkerSize(df_filtered[i][sizeCol])],
                 color |-> Column(df_filtered, colorCol),
                 colorscale |-> scale,
                 cmin |-> NumMin(Column(ColorRangeRows(df_100, df_filtered), colorCol)),
                 cmax |-> NumMax(Column(ColorRangeRows(df_100, df_filtered), colorCol)),
                 colorbar |-> [title |-> colorCol]]]

create_plot ==
    /\ lastCall' = Call("MSPlot.create_plot", None)
    /\ stdout' = <<>>
    /\ IF data.kind # "DataFrame"
       THEN /\ raised' = Exception("AttributeError", <<"'MSPlot' object has no attribute 'data'">>)
            /\ ret' = None
            /\ UNCHANGED <<plot_start_time, plot_end_time>>
       ELSE \E df_100 \in sort_values(iloc(data.rows)) :
            LET lower == DefaultBound(plot_start_time, TsMin(Column(df_100, "Origin DateTime")))
                upper == DefaultBound(plot_end_time, TsMax(Column(df_100, "Origin DateTime")))
                df_filtered == Filter(df_100, lower, upper)
            IN  /\ plot_start_time' = lower
                /\ plot_end_time' = upper
                /\ ret' = Scatter3d(df_100, df_filtered, size_by, color_by, color_scale)
                /\ raised' = None
    /\ UNCHANGED <<fs, data, color_by, color_scale, size_by, size_range, title, callerSet,
                   well, dvVars>>

-----------------------------------------------------------------------------
(* The MSPlot specifications *)

DefaultTitle == "3D Bubble Chart of Cumulative Seismic Entries"

\* MSPlot.__init__
InitMSPlot ==
    /\ data = None
    /\ color_by = "Stage"
    /\ color_scale = "Viridis"
    /\ size_by = "Brune Magnitude"
    /\ size_range = <<10, 100>>
    /\ plot_start_time = None
    /\ plot_end_time = None
    /\ title = DefaultTitle
    /\ callerSet = {}

InitCall ==
    /\ lastCall = Call("__init__", None)
    /\ ret = None
    /\ raised = None
    /\ stdout = <<>>

NoWellPlot == well = <<None, None, None, None>>
NoDataViewer == plot_objects = <<>> /\ fig = None

Paths == {"a.csv", "b.csv", "missing.csv"}

\* the second catalog on disk
CatalogB == CatalogFile(<< <<<<1, 1, 2025>>, <<0, 0, 0>>, 300, -7, 3>>,
                           <<<<1, 1, 2025>>, <<0, 0, 0>>, 100, -9, 4>> >>)

\* --- loading: catalogs whose rows differ in date, time and millisecond
LoadDates == {<<12, 31, 2024>>, <<1, 1, 2025>>}
LoadTimes == {<<0, 0, 0>>, <<0, 0, 1>>}
LoadMillis == {0, 999, 1000}
LoadRows == {<<d, t, ms, -12, 1>> : d \in LoadDates, t \in LoadTimes, ms \in LoadMillis}

InitLoad ==
    /\ fs \in {("a.csv" :> CatalogFile(c)) @@ ("b.csv" :> CatalogB) : c \in SeqsUpTo(LoadRows, MaxLoadRows)}
    /\ InitMSPlot /\ InitCall /\ NoWellPlot /\ NoDataViewer

NextLoad ==
    \/ \E p \in Paths : load_csv(p)
    \/ set_colorscale("Plasma")
    \/ set_sizerange(<<5, 50>>)

SpecLoad == InitLoad /\ [][NextLoad]_vars

\* --- plotting: catalogs of up to MaxRows rows, and catalogs of
\* DevCap - 1 .. DevCap + MaxOver rows
PlotDate == <<12, 31, 2024>>
PlotTime == <<0, 0, 0>>
PlotRows == {<<PlotDate, PlotTime, 0, -12, 1>>, <<PlotDate, PlotTime, 50, -5, 1>>,
             <<PlotDate, PlotTime, 50, -20, 2>>, <<PlotDate, PlotTime, 200, -12, 2>>}
\* the n-row catalog: row i is at millisecond i up to row DevCap - 1, and
\* every later row is at millisecond 50
LongCatalog(n) ==
    [i \in 1..n |-> IF i < DevCap THEN <<PlotDate, PlotTime, i, -10, 1>>
                    ELSE <<PlotDate, PlotTime, 50, -20, 2>>]
ShortCatalogs == SeqsUpTo(PlotRows, MaxRows)
PlotCatalogs == ShortCatalogs \cup {LongCatalog(n) : n \in (DevCap - 1)..(DevCap + MaxOver)}
TimeInputs == {None, Ts(50), Ts(150)}
ColumnInputs == {"Stage", "Brune Magnitude"}

InitMS ==
    /\ fs \in {("a.csv" :> CatalogFile(c)) @@ ("b.csv" :> CatalogB) : c \in PlotCatalogs}
    /\ InitMSPlot /\ InitCall /\ NoWellPlot /\ NoDataViewer

NextMS ==
    \/ \E p \in {"a.csv", "b.csv"} : load_csv(p)
    \/ \E t \in TimeInputs : set_start_time(t)
    \/ \E t \in TimeInputs : set_end_time(t)
    \/ create_plot

SpecMS == InitMS /\ [][NextMS]_vars

\* --- encoding: the short catalogs, every choice of size and color column
InitEnc ==
    /\ fs \in {("a.csv" :> CatalogFile(c)) : c \in ShortCatalogs}
    /\ InitMSPlot /\ InitCall /\ NoWellPlot /\ NoDataViewer

NextEnc ==
    \/ load_csv("a.csv")
    \/ set_start_time(Ts(50))
    \/ set_end_time(Ts(50))
    \/ \E c \in ColumnInputs : set_colorby(c)
    \/ \E c \in ColumnInputs : set_sizeby(c)
    \/ create_plot

SpecEnc == InitEnc /\ [][NextEnc]_vars

-----------------------------------------------------------------------------
(* Properties of MSPlot.create_plot *)

\* create_plot was the last call and returned a point cloud
Plotted == lastCall.op = "MSPlot.create_plot" /\ ret.kind = "Scatter3d"

\* the File Names of the plotted points, in plot order (the hover text
\* carries the File Name, and a catalog's i-th row is named i)
PlottedNames == [i \in DOMAIN ret.text |-> ret.text[i][2]]

TimeOf(name) == data.rows[name]["Origin DateTime"]

\* the loaded rows inside the window the call filtered by
InWindowNames ==
    {i \in DOMAIN data.rows : /\ Ge(TimeOf(i), plot_start_time)
                              /\ Le(TimeOf(i), plot_end_time)}

\* C1: after load_csv, create_plot returns exactly the loaded records with
\* lower <= Origin DateTime <= upper, each once, whatever their row position.
C1_ExactlyTheWindow ==
    Plotted =>
        /\ {PlottedNames[i] : i \in DOMAIN PlottedNames} = InWindowNames
        /\ Len(PlottedNames) = Cardinality(InWindowNames)

\* C2: a bound the caller never set is, in every create_plot call, the
\* minimum (maximum) timestamp of the rows that call considers.
C2_DefaultBoundsFollowData ==
    Plotted =>
        LET times == Column(iloc(data.rows), "Origin DateTime")
        IN  /\ "plot_start_time" \notin callerSet => plot_start_time = TsMin(times)
            /\ "plot_end_time" \notin callerSet => plot_end_time = TsMax(times)

\* C4 as stated: the plotted records keep their relative source row order.
C4_SourceOrder ==
    Plotted => \A i, j \in DOMAIN PlottedNames : i < j => PlottedNames[i] < PlottedNames[j]

\* C4 amended: the plotted records are in non-decreasing Origin DateTime order.
C4_ChronologicalOrder ==
    Plotted => \A i, j \in DOMAIN PlottedNames :
                   i < j => TimeOf(PlottedNames[i]) <= TimeOf(PlottedNames[j])

C4_Witness ==
    /\ Plotted
    /\ \E i, j \in DOMAIN PlottedNames : i < j /\ PlottedNames[i] > PlottedNames[j]
    /\ \E i, j \in DOMAIN PlottedNames : i < j /\ TimeOf(PlottedNames[i]) = TimeOf(PlottedNames[j])

\* the window bounds are both timestamps and out of order
OutOfOrder ==
    /\ plot_start_time.kind = "Timestamp"
    /\ plot_end_time.kind = "Timestamp"
    /\ plot_start_time.ms > plot_end_time.ms

\* C6: create_plot on a loaded catalog with plot_start_time > plot_end_time
\* returns a point cloud with zero records and does not raise.
C6_OutOfOrderIsEmpty ==
    (lastCall.op = "MSPlot.create_plot" /\ data.kind = "DataFrame" /\ OutOfOrder) =>
        /\ raised = None
        /\ ret.kind = "Scatter3d"
        /\ ret.x = <<>> /\ ret.y = <<>> /\ ret.z = <<>> /\ ret.text = <<>>
        /\ ret.marker.size = <<>> /\ ret.marker.color = <<>>

C6_Witness ==
    /\ lastCall.op = "MSPlot.create_plot"
    /\ data.kind = "DataFrame" /\ Len(data.rows) > DevCap
    /\ callerSet = {"plot_start_time", "plot_end_time"}
    /\ OutOfOrder
    /\ \E i \in DOMAIN data.rows : TimeOf(i) = plot_end_time.ms

C8_WitnessExample ==
    /\ Plotted
    /\ Column(data.rows, "Brune Magnitude") = <<-12, -5, -20>>
    /\ Column(data.rows, "Stage") = <<1, 1, 2>>
    /\ ret.marker.size = <<1200, 500, 2000>>
    /\ ret.marker.color = <<1, 1, 2>>
    /\ ret.marker.cmin = Num(1) /\ ret.marker.cmax = Num(2)

\* the plotted records all have the same color value
C8_WitnessConstant ==
    /\ Plotted
    /\ Len(PlottedNames) >= 2
    /\ ret.marker.cmin = ret.marker.cmax

-----------------------------------------------------------------------------
(* Properties of MSPlot.load_csv *)

DateOf(r) == r["Origin Time - Date (UTC) - MM/DD/YYYY"]
ClockOf(r) == r["Origin Time - Time (UTC) - HH:MM:ss"]
MillisOf(r) == r["Origin Time - Millisecond (UTC)"]

\* date a is an earlier calendar day than date b (dates are <<MM, DD, YYYY>>)
EarlierDay(a, b) ==
    \/ a[3] < b[3]
    \/ a[3] = b[3] /\ a[1] < b[1]
    \/ a[3] = b[3] /\ a[1] = b[1] /\ a[2] < b[2]

\* seconds since midnight of a time of day <<HH, MM, ss>>
SecondsOfDay(t) == t[1] * 3600 + t[2] * 60 + t[3]

\* C9: every loaded record's Origin DateTime is datetime(date, time) plus
\* exactly its millisecond offset: on one calendar day the timestamps differ
\* by precisely the difference of (seconds of day * 1000 + offset), so equal
\* date and time with different offsets give different timestamps ordered by
\* the offsets; and a record of an earlier day with a smaller in-day time
\* comes earlier.
C9_MillisecondsExact ==
    data.kind = "DataFrame" =>
        \A i, j \in DOMAIN data.rows :
            LET a == data.rows[i]
                b == data.rows[j]
                inDay(r) == SecondsOfDay(ClockOf(r)) * 1000 + MillisOf(r)
            IN  /\ DateOf(a) = DateOf(b) =>
                      a["Origin DateTime"] - b["Origin DateTime"] = inDay(a) - inDay(b)
                /\ (DateOf(a) = DateOf(b) /\ ClockOf(a) = ClockOf(b) /\ MillisOf(a) < MillisOf(b)) =>
                      a["Origin DateTime"] < b["Origin DateTime"]
                /\ (EarlierDay(DateOf(a), DateOf(b)) /\ inDay(a) <= inDay(b)) =>
                      a["Origin DateTime"] < b["Origin DateTime"]

\* two loaded records agree on date and time and differ by less than a
\* second in their offsets, and two are on different days
C9_Witness ==
    /\ data.kind = "DataFrame"
    /\ \E i, j \in DOMAIN data.rows :
          /\ DateOf(data.rows[i]) = DateOf(data.rows[j])
          /\ ClockOf(data.rows[i]) = ClockOf(data.rows[j])
          /\ MillisOf(data.rows[i]) = 0 /\ MillisOf(data.rows[j]) = 999
          /\ data.rows[j]["Origin DateTime"] = data.rows[i]["Origin DateTime"] + 999

\* C10: load_csv of a path that does not exist raises FileNotFoundError with
\* the path in its message, prints and returns nothing, and leaves the
\* loaded record set and every configuration field as they were.
C10_MissingFile ==
    [][(lastCall'.op = "MSPlot.load_csv" /\ lastCall'.arg \notin DOMAIN fs) =>
          /\ raised'.kind = "raised"
          /\ raised'.type = "FileNotFoundError"
          /\ \E k \in DOMAIN raised'.msg : raised'.msg[k] = lastCall'.arg
          /\ ret' = None /\ stdout' = <<>>
          /\ data' = data
          /\ msCfg' = msCfg]_vars

\* a load of a missing path after a successful load and a configuration change
C10_Witness ==
    /\ lastCall.op = "MSPlot.load_csv" /\ lastCall.arg \notin DOMAIN fs
    /\ raised.kind = "raised"
    /\ data.kind = "DataFrame" /\ Len(data.rows) > 0
    /\ color_scale # "Viridis"

-----------------------------------------------------------------------------
(* WellPlot *)

Str(v) == [kind |-> "str", v |-> v]

SkipRowsA == 27
SkipFooterA == 5
SkipRowsB == 22

TextLine(n) == [kind |-> "text", n |-> n]
Station(az, tvd, ns, ew) == [Azimuth |-> az, TVD |-> tvd, NS |-> ns, EW |-> ew]

\* a survey of the first format: SkipRowsA lines, the column names, the
\* stations, SkipFooterA trailing lines
WellFileA(stations) ==
    [i \in 1..SkipRowsA |-> TextLine(i)] \o <<TextLine(0)>> \o stations
      \o [i \in 1..SkipFooterA |-> TextLine(-i)]
\* a survey of the second format: SkipRowsB lines, then the stations
WellFileB(stations) == [i \in 1..SkipRowsB |-> TextLine(i)] \o stations

\* pd.read_csv(path, skiprows=27, skipfooter=5, usecols=[...])
read_csv_A(lines) == DataFrame(SubSeq(lines, SkipRowsA + 2, Len(lines) - SkipFooterA))
\* pd.read_csv(path, skiprows=22, usecols=[...], names=[...])
read_csv_B(lines) == DataFrame(SubSeq(lines, SkipRowsB + 1, Len(lines)))

\* what pd.read_csv does with the value held in field k
WellReadFails(w, k) == w[k].kind # "str" \/ w[k].v \notin DOMAIN fs
WellReadError(w, k) ==
    IF w[k].kind # "str"
    THEN Exception("ValueError", <<"Invalid file path or buffer object type: ", w[k].kind>>)
    ELSE Exception("FileNotFoundError", <<"No such file or directory: ", w[k].v>>)
WellRead(w, k) == IF k = 1 THEN read_csv_A(fs[w[k].v]) ELSE read_csv_B(fs[w[k].v])

\* WellPlot.load_csv: the four fields are read and overwritten in turn; the
\* first read that raises ends the call
WellPlot_load_csv ==
    LET failing == {k \in 1..4 : WellReadFails(well, k)}
        first == IF failing = {} THEN 5 ELSE CHOOSE k \in failing : \A j \in failing : k <= j
    IN  /\ lastCall' = Call("WellPlot.load_csv", None)
        /\ well' = [k \in 1..4 |-> IF k < first THEN WellRead(well, k) ELSE well[k]]
        /\ IF first = 5
           THEN raised' = None /\ ret' = True /\ stdout' = <<"Success!">>
           ELSE raised' = WellReadError(well, first) /\ ret' = None /\ stdout' = <<>>
        /\ UNCHANGED <<fs, msVars, dvVars>>

Stations == {Station(0, 100, 0, 0), Station(90, 200, 5, 7)}
WellPathsA == {"wellA.csv", "missingA.csv"}
WellPathsB == {"wellB.csv", "missingB.csv"}

\* WellPlot.__init__(well1, well2, well3, well4)
InitWell ==
    /\ fs \in {("wellA.csv" :> WellFileA(a)) @@ ("wellB.csv" :> WellFileB(b)) :
                  a, b \in SeqsUpTo(Stations, MaxStations)}
    /\ well \in {<<Str(p1), Str(p2), Str(p3), Str(p4)>> :
                    p1 \in WellPathsA, p2 \in WellPathsB, p3 \in WellPathsB, p4 \in WellPathsB}
    /\ InitMSPlot /\ InitCall /\ NoDataViewer

NextWell == WellPlot_load_csv

SpecWell == InitWell /\ [][NextWell]_vars

\* C5 (WellPlot): load_csv on an object that already holds its loaded record
\* sets succeeds (and so leaves them as the first load did).
C5_WellReloadSucceeds ==
    (lastCall.op = "WellPlot.load_csv" /\ \A k \in 1..4 : well[k].kind = "DataFrame") =>
        raised = None /\ ret = True

-----------------------------------------------------------------------------
(* DataViewer *)

List(items) == [kind |-> "list", items |-> items]
Trace(name) == [kind |-> "Scatter3d", name |-> name]

\* isinstance(c, go.Scatter3d) (IsScatter3d_any: the variant that accepts
\* every value that is not a list)
IsScatter3d_any(c) == c.kind # "list"
IsScatter3d(c) == c.kind = "Scatter3d"

\* print(f"Invalid object: {c}")
Diagnostic(c) == <<"Invalid object: ", c>>

\* one leaf: added as a trace, or reported
DrawLeaf(c) ==
    IF IsScatter3d(c) THEN [traces |-> <<c>>, printed |-> <<>>]
    ELSE [traces |-> <<>>, printed |-> <<Diagnostic(c)>>]

RECURSIVE DrawAll(_)
DrawAll(items) ==
    IF items = <<>> THEN [traces |-> <<>>, printed |-> <<>>]
    ELSE LET h == DrawLeaf(Head(items))
             t == DrawAll(Tail(items))
         IN  [traces |-> h.traces \o t.traces, printed |-> h.printed \o t.printed]

\* the body of the outer loop for one element b of plot_objects
DrawElement(b) == IF b.kind = "list" THEN DrawAll(b.items) ELSE DrawLeaf(b)

RECURSIVE DrawObjects(_)
DrawObjects(objs) ==
    IF objs = <<>> THEN [traces |-> <<>>, printed |-> <<>>]
    ELSE LET h == DrawElement(Head(objs))
             t == DrawObjects(Tail(objs))
         IN  [traces |-> h.traces \o t.traces, printed |-> h.printed \o t.printed]

\* fig.update_layout() is called with no arguments: the layout keeps the
\* title of a fresh go.Figure(), which is none
LayoutTitle(t) == None

\* DataViewer.draw
draw ==
    LET drawn == DrawObjects(plot_objects)
    IN  /\ lastCall' = Call("DataViewer.draw", None)
        /\ fig' = [kind |-> "Figure", data |-> drawn.traces,
                   layout |-> [title |-> LayoutTitle(title)], shown |-> TRUE]
        /\ stdout' = drawn.printed
        /\ ret' = None
        /\ raised' = None
        /\ UNCHANGED <<fs, msVars, well, plot_objects>>

ValidLeaves == {Trace("MS"), Trace("1H")}
InvalidLeaves == {Str("not a trace"), [kind |-> "Scatter", name |-> "2D"]}
\* what a list element of plot_objects can hold: leaves, and a further list
GroupItems == {Trace("1H"), Str("not a trace"), List(<<Trace("2H")>>)}
Elements == ValidLeaves \cup InvalidLeaves \cup {List(g) : g \in SeqsUpTo(GroupItems, MaxGroup)}

\* DataViewer.__init__(plot_objects), beside an MSPlot
InitDV ==
    /\ fs = <<>>
    /\ plot_objects \in SeqsUpTo(Elements, MaxObjs)
    /\ fig = None
    /\ InitMSPlot /\ InitCall /\ NoWellPlot

NextDV ==
    \/ set_title("Stage 3 events")
    \/ set_title(DefaultTitle)
    \/ draw

SpecDV == InitDV /\ [][NextDV]_vars

\* the leaves of plot_objects in encounter order, one level of lists opened
RECURSIVE Leaves(_)
Leaves(objs) ==
    IF objs = <<>> THEN <<>>
    ELSE (IF Head(objs).kind = "list" THEN Head(objs).items ELSE <<Head(objs)>>)
           \o Leaves(Tail(objs))

\* no list of plot_objects holds a list
OneLevel ==
    \A i \in DOMAIN plot_objects :
        plot_objects[i].kind = "list" =>
            \A k \in DOMAIN plot_objects[i].items : plot_objects[i].items[k].kind # "list"

IsTrace(c) == c.kind = "Scatter3d"
NotTrace(c) == c.kind # "Scatter3d"

\* C3: draw never aborts; the scene holds exactly the Scatter3d leaves in
\* encounter order, and one diagnostic is printed per other leaf, in
\* encounter order, each naming the leaf.
C3_Composition ==
    (lastCall.op = "DataViewer.draw" /\ OneLevel) =>
        LET bad == SelectSeq(Leaves(plot_objects), NotTrace)
        IN  /\ raised = None
            /\ fig.kind = "Figure"
            /\ fig.data = SelectSeq(Leaves(plot_objects), IsTrace)
            /\ Len(stdout) = Len(bad)
            /\ \A i \in DOMAIN bad : stdout[i][1] = "Invalid object: " /\ stdout[i][2] = bad[i]

\* a drawn scene from a list mixing single entries and a group, with valid
\* and invalid leaves
C3_Witness ==
    /\ lastCall.op = "DataViewer.draw" /\ OneLevel
    /\ \E i, j \in DOMAIN plot_objects :
          /\ plot_objects[i].kind = "list" /\ Len(plot_objects[i].items) = 2
          /\ plot_objects[i].items[1].kind # plot_objects[i].items[2].kind
          /\ plot_objects[j].kind # "list"
    /\ Len(fig.data) >= 1 /\ Len(stdout) >= 1

\* one valid and one invalid entry: one drawable and one diagnostic
C3_WitnessOneEach ==
    /\ lastCall.op = "DataViewer.draw"
    /\ Len(plot_objects) = 2
    /\ plot_objects[1].kind = "Scatter3d" /\ plot_objects[2].kind = "str"
    /\ Len(fig.data) = 1 /\ Len(stdout) = 1

\* C7: the scene draw produces carries the configured title.
C7_TitleApplied ==
    lastCall.op = "DataViewer.draw" =>
        fig.layout.title.kind = "str" /\ fig.layout.title.v = title

====
